---- MODULE Spec2Model ----
(***************************************************************************)
(* DataPipeline: the DataProcessing session (data_processing.py) and the   *)
(* pipeline driver and batch runner (main.py).                             *)
(*                                                                         *)
(* A table (pandas DataFrame) is a frame: a sequence of rows, each row a   *)
(* record with its index label "id" and one string value per column, and   *)
(* the dtype of every column.  A missing value is NaN.  A Python dict is a *)
(* sequence of [k, g] entries in insertion order.                          *)
(***************************************************************************)
EXTENDS Integers, Sequences, FiniteSets, TLC

VARIABLES
    sess,          \* "none" before DataProcessing.__init__ returns, then "open"
    df,            \* self.df
    clusters,      \* self.clusters: column -> dict(value -> frame)
    sub_clusters,  \* self.sub_clusters: key string -> dict(value -> dict(value -> frame))
    ret,           \* the last call: its name, arguments and outcome
    observed,      \* the installed pandas' default of groupby(observed=...)
    nops,          \* number of calls made on the open session
    pc,            \* process_data: the next step of the current run
    cfg,           \* process_data: the options of the current run
    trace,         \* process_data: the steps the current run has executed
    todo,          \* process_all_datasets: dataset names still to be processed
    results        \* process_all_datasets: results, a dict name -> outcome

vars == <<sess, df, clusters, sub_clusters, ret, observed, nops,
          pc, cfg, trace, todo, results>>

dpVars == <<sess, df, clusters, sub_clusters>>
runVars == <<pc, cfg, trace, todo, results>>

----------------------------------------------------------------------------
(* Bounds *)

MaxRows == 2
MaxOps == 3
MaxDatasets == 2

----------------------------------------------------------------------------
(* Values, columns, rows *)

NaN == "NaN"
None == "None"

Cols == {"tag", "tag_tag"}
NoCol == "zip"

LookupVals == {"West", "east"}

\* str.title() on the values of the model; a missing value stays missing
Title(v) == IF v = "east" THEN "East" ELSE v

\* the ascending order of the string values (Python str comparison)
ValOrder == <<"East", "West", "east">>

RowKinds ==
    { [tag |-> "West", tag_tag |-> "east"],
      [tag |-> "east", tag_tag |-> NaN] }

Tables == UNION { [1..n -> RowKinds] : n \in 0..MaxRows }

Range(s) == { s[i] : i \in DOMAIN s }

ObjectT == [kind |-> "object", cats |-> <<>>]
FloatT == [kind |-> "float64", cats |-> <<>>]
CatT(order) == [kind |-> "category", cats |-> order]

NoFrame == [rows |-> <<>>, dtype |-> [c \in Cols |-> ObjectT]]

\* pd.read_csv: a column with no value at all is read as float64
ReadFrame(t) ==
    [rows |-> [i \in 1..Len(t) |->
                 [id |-> i, tag |-> t[i].tag, tag_tag |-> t[i].tag_tag]],
     dtype |-> [c \in Cols |->
                 IF Len(t) > 0 /\ \A i \in 1..Len(t) : t[i][c] = NaN
                 THEN FloatT ELSE ObjectT]]

Ids(f) == { f.rows[i].id : i \in 1..Len(f.rows) }

----------------------------------------------------------------------------
(* Format resolver *)

NoFormat == "none"

Lower(e) == IF e = "CSV" THEN "csv" ELSE e

FormatMapKeys ==
    {"csv", "parquet", "pq", "json", "jsonl", "xlsx", "xls",
     "feather", "ftr", "h5", "hdf", "hdf5"}

FormatMap(e) ==
    CASE e = "csv" -> "csv"
      [] e \in {"parquet", "pq"} -> "parquet"
      [] e \in {"json", "jsonl"} -> "json"
      [] e \in {"xlsx", "xls"} -> "excel"
      [] e \in {"feather", "ftr"} -> "feather"
      [] e \in {"h5", "hdf", "hdf5"} -> "hdf"

\* _detect_format: the format, or None where the code raises ValueError
detect_format(path) ==
    LET ext == Lower(path.ext)
    IN  IF ext \in FormatMapKeys THEN FormatMap(ext) ELSE None

KnownFormats ==
    {"csv", "parquet", "json", "excel", "xlsx", "xls", "feather", "hdf"}

\* os.path.exists on the paths of the model
Exists(path) == path.base = "data"

Paths == [base : {"data", "gone"}, ext : {"csv", "CSV", "pq", "json", "txt"}]
ExplicitFormats == {NoFormat, "csv", "xlsx", "json", "yaml"}

\* __init__ with the existence check moved before the format detection
InitOutcome_ExistsFirst(path, file_format) ==
    LET fmt == IF file_format = NoFormat THEN detect_format(path) ELSE file_format
    IN  IF ~Exists(path) THEN "FileNotFoundError"
        ELSE IF fmt = None \/ fmt \notin KnownFormats THEN "ValueError"
        ELSE "ok"

\* DataProcessing.__init__ up to the reader: the error raised, or "ok"
InitOutcome(path, file_format) ==
    LET fmt == IF file_format = NoFormat THEN detect_format(path) ELSE file_format
    IN  IF fmt = None THEN "ValueError"
        ELSE IF ~Exists(path) THEN "FileNotFoundError"
        ELSE IF fmt \notin KnownFormats THEN "ValueError"
        ELSE "ok"

----------------------------------------------------------------------------
(* Dicts as sequences of entries *)

Keys(d) == { d[i].k : i \in 1..Len(d) }
Get(d, k) == d[CHOOSE i \in 1..Len(d) : d[i].k = k].g

\* d[k] = g on a Python dict: an existing key keeps its position
Put(d, k, g) ==
    IF k \in Keys(d)
    THEN [i \in 1..Len(d) |-> IF d[i].k = k THEN [k |-> k, g |-> g] ELSE d[i]]
    ELSE Append(d, [k |-> k, g |-> g])

----------------------------------------------------------------------------
(* Table operations *)

\* df[~df[col].isin(values)]
FilterFrame(f, col, values) ==
    LET Stays(r) == r[col] \notin values
    IN  [f EXCEPT !.rows = SelectSeq(f.rows, Stays)]

\* df[df[col].isin(values)]
KeepFrame(f, col, values) ==
    LET Stays(r) == r[col] \in values
    IN  [f EXCEPT !.rows = SelectSeq(f.rows, Stays)]

\* df[col] = df[col].str.title()
TitleFrame(f, col) ==
    [rows |-> [i \in 1..Len(f.rows) |-> [f.rows[i] EXCEPT ![col] = Title(@)]],
     dtype |-> [f.dtype EXCEPT ![col] = ObjectT]]

\* df[col] = pd.Categorical(df[col], categories=order, ordered=True)
CategoricalFrame(f, col, order) ==
    [rows |-> [i \in 1..Len(f.rows) |->
                 [f.rows[i] EXCEPT ![col] = IF @ \in Range(order) THEN @ ELSE NaN]],
     dtype |-> [f.dtype EXCEPT ![col] = CatT(order)]]

\* the code of a categorical value: its position in the categories
Code(v, order) == CHOOSE i \in 1..Len(order) : order[i] = v

HasDuplicates(order) ==
    \E i, j \in 1..Len(order) : i # j /\ order[i] = order[j]

\* df.sort_values(by=col, na_position='last') with the default kind='quicksort':
\* rows in ascending code order, the order of rows with equal codes unspecified
\* (quicksort is not stable); missing values are appended in their row order
SortValues(rows, col, order) ==
    LET n == Len(rows)
        perms == { p \in [1..n -> 1..n] : \A i, j \in 1..n : i # j => p[i] # p[j] }
        Ok(p) == \A i, j \in 1..n : i < j =>
                    LET a == rows[p[i]][col]
                        b == rows[p[j]][col]
                    IN  /\ a = NaN => b = NaN
                        /\ (a # NaN /\ b # NaN) => Code(a, order) <= Code(b, order)
                        /\ (a = NaN /\ b = NaN) => p[i] < p[j]
    IN  { [i \in 1..n |-> rows[p[i]]] : p \in { q \in perms : Ok(q) } }

\* name -> group pairs of df.groupby(col): sort=True, dropna=True, and for a
\* categorical column every category unless observed
GroupBy(f, col, obs) ==
    LET present == { f.rows[i][col] : i \in 1..Len(f.rows) } \ {NaN}
        cats == f.dtype[col].cats
        InObj(k) == k \in present
        InCat(k) == obs => k \in present
        keys == IF f.dtype[col].kind = "category"
                THEN SelectSeq(cats, InCat)
                ELSE SelectSeq(ValOrder, InObj)
    IN  [i \in 1..Len(keys) |->
           LET Member(r) == r[col] = keys[i]
           IN  [k |-> keys[i], g |-> [f EXCEPT !.rows = SelectSeq(f.rows, Member)]]]

\* f"{primary_column}_{sub_column}"
Key(primary_column, sub_column) == primary_column \o "_" \o sub_column

\* self.clusters after create_clusters(col) has returned
ClustersAfterCreate(cl, f, col, obs) ==
    [c \in DOMAIN cl \cup {col} |-> IF c = col THEN GroupBy(f, col, obs) ELSE cl[c]]

\* the dict create_sub_clusters builds from the primary groups
SubGroups(primary, sub_column, obs) ==
    [i \in 1..Len(primary) |->
        [k |-> primary[i].k, g |-> GroupBy(primary[i].g, sub_column, obs)]]

SetSub(sc, key, d) ==
    [x \in DOMAIN sc \cup {key} |-> IF x = key THEN d ELSE sc[x]]

\* create_sub_clusters rebuilding the primary index on every call
CreateSubResult_Rebuild(cl, sc, f, primary_column, sub_column, obs) ==
    LET cl1 == ClustersAfterCreate(cl, f, primary_column, obs)
    IN  [err |-> "ok", cl |-> cl1,
         sc |-> SetSub(sc, Key(primary_column, sub_column),
                       SubGroups(cl1[primary_column], sub_column, obs))]

\* create_sub_clusters as a whole: the error raised or "ok", and the state left
CreateSubResult(cl, sc, f, primary_column, sub_column, obs) ==
    IF primary_column \notin DOMAIN cl /\ primary_column \notin Cols
    THEN [err |-> "KeyError", cl |-> cl, sc |-> sc]
    ELSE LET cl1 == IF primary_column \notin DOMAIN cl
                    THEN ClustersAfterCreate(cl, f, primary_column, obs)
                    ELSE cl
             key == Key(primary_column, sub_column)
         IN  IF sub_column \notin Cols
             THEN [err |-> IF Len(cl1[primary_column]) > 0 THEN "KeyError" ELSE "ok",
                   cl |-> cl1, sc |-> SetSub(sc, key, <<>>)]
             ELSE [err |-> "ok", cl |-> cl1,
                   sc |-> SetSub(sc, key, SubGroups(cl1[primary_column], sub_column, obs))]

\* self.sub_clusters[key][primary_value][sub_value], None on KeyError
LookupSub(sc, key, primary_value, sub_value) ==
    IF primary_value \notin Keys(sc[key]) THEN None
    ELSE IF sub_value \notin Keys(Get(sc[key], primary_value)) THEN None
    ELSE "frame"

----------------------------------------------------------------------------
(* The record of the last call *)

Call(op, col, col2, vals, order, pv, sv, out, err, rows) ==
    [op |-> op, col |-> col, col2 |-> col2, vals |-> vals, order |-> order,
     pv |-> pv, sv |-> sv, out |-> out, err |-> err, rows |-> rows]

NoCall == Call("", "", "", {}, <<>>, "", "", "", "", <<>>)

----------------------------------------------------------------------------
(* DataProcessing: the effect of each method on the session *)

Raise(op, col, col2, vals, order, pv, sv, err) ==
    Call(op, col, col2, vals, order, pv, sv, "raise", err, <<>>)

\* __init__(filename, file_format): t is what the reader finds in the file
DataProcessing_init(path, file_format, t, readable) ==
    LET outcome == InitOutcome(path, file_format)
        err == IF outcome # "ok" THEN outcome
               ELSE IF ~readable THEN "ReadError" ELSE ""
    IN  /\ ret' = IF err = ""
                  THEN Call("load", "", "", {}, <<>>, "", "", "ok", "", <<>>)
                  ELSE Raise("load", path.base, path.ext, {}, <<>>, file_format,
                             "", err)
        /\ IF err = ""
           THEN /\ sess' = "open"
                /\ df' = ReadFrame(t)
                /\ clusters' = <<>>
                /\ sub_clusters' = <<>>
           ELSE UNCHANGED dpVars

filter_by_column(column_name, values_to_drop) ==
    IF column_name \notin Cols
    THEN /\ ret' = Raise("filter_by_column", column_name, "", values_to_drop,
                         <<>>, "", "", "KeyError")
         /\ UNCHANGED dpVars
    ELSE /\ df' = FilterFrame(df, column_name, values_to_drop)
         /\ ret' = Call("filter_by_column", column_name, "", values_to_drop,
                        <<>>, "", "", "ok", "", <<>>)
         /\ UNCHANGED <<sess, clusters, sub_clusters>>

keep_only_values(column_name, values_to_keep) ==
    IF column_name \notin Cols
    THEN /\ ret' = Raise("keep_only_values", column_name, "", values_to_keep,
                         <<>>, "", "", "KeyError")
         /\ UNCHANGED dpVars
    ELSE /\ df' = KeepFrame(df, column_name, values_to_keep)
         /\ ret' = Call("keep_only_values", column_name, "", values_to_keep,
                        <<>>, "", "", "ok", "", <<>>)
         /\ UNCHANGED <<sess, clusters, sub_clusters>>

\* the frames sort_by_custom_order can leave in self.df when it returns
SortResults(f, column_name, category_order) ==
    LET c == CategoricalFrame(TitleFrame(f, column_name), column_name, category_order)
    IN  { [c EXCEPT !.rows = s] : s \in SortValues(c.rows, column_name, category_order) }

sort_by_custom_order(column_name, category_order) ==
    LET R(err) == Raise("sort_by_custom_order", column_name, "", {},
                        category_order, "", "", err)
    IN  IF column_name \notin Cols
        THEN ret' = R("KeyError") /\ UNCHANGED dpVars
        ELSE IF df.dtype[column_name].kind = "float64"
        THEN ret' = R("AttributeError") /\ UNCHANGED dpVars
        ELSE IF HasDuplicates(category_order)
        THEN /\ df' = TitleFrame(df, column_name)
             /\ ret' = R("ValueError")
             /\ UNCHANGED <<sess, clusters, sub_clusters>>
        ELSE /\ df' \in SortResults(df, column_name, category_order)
             /\ ret' = Call("sort_by_custom_order", column_name, "", {},
                            category_order, "", "", "ok", "", <<>>)
             /\ UNCHANGED <<sess, clusters, sub_clusters>>

create_clusters(column_name) ==
    IF column_name \notin Cols
    THEN /\ ret' = Raise("create_clusters", column_name, "", {}, <<>>, "", "",
                         "KeyError")
         /\ UNCHANGED dpVars
    ELSE /\ clusters' = ClustersAfterCreate(clusters, df, column_name, observed)
         /\ ret' = Call("create_clusters", column_name, "", {}, <<>>, "", "",
                        "ok", "", <<>>)
         /\ UNCHANGED <<sess, df, sub_clusters>>

create_sub_clusters(primary_column, sub_column) ==
    LET r == CreateSubResult(clusters, sub_clusters, df, primary_column,
                             sub_column, observed)
    IN  /\ clusters' = r.cl
        /\ sub_clusters' = r.sc
        /\ ret' = Call("create_sub_clusters", primary_column, sub_column, {},
                       <<>>, "", "", IF r.err = "ok" THEN "ok" ELSE "raise",
                       IF r.err = "ok" THEN "" ELSE r.err, <<>>)
        /\ UNCHANGED <<sess, df>>

\* whether get_sub_cluster finds its key cached
SubCached(sc, primary_column, sub_column) ==
    Key(primary_column, sub_column) \in DOMAIN sc

get_sub_cluster(primary_column, sub_column, primary_value, sub_value) ==
    LET key == Key(primary_column, sub_column)
        r == IF SubCached(sub_clusters, primary_column, sub_column)
             THEN [err |-> "ok", cl |-> clusters, sc |-> sub_clusters]
             ELSE CreateSubResult(clusters, sub_clusters, df, primary_column,
                                  sub_column, observed)
        found == IF r.err = "ok"
                 THEN LookupSub(r.sc, key, primary_value, sub_value)
                 ELSE None
    IN  /\ clusters' = r.cl
        /\ sub_clusters' = r.sc
        /\ ret' = Call("get_sub_cluster", primary_column, sub_column, {}, <<>>,
                       primary_value, sub_value,
                       IF r.err # "ok" THEN "raise" ELSE found,
                       IF r.err # "ok" THEN r.err ELSE "",
                       IF found = "frame"
                       THEN Get(Get(r.sc[key], primary_value), sub_value).rows
                       ELSE <<>>)
        /\ UNCHANGED <<sess, df>>

----------------------------------------------------------------------------
(* The session used through its methods *)

ValueSets == { {"east"}, {"West", "East"} }
Orders == { <<"East">>, <<"West", "East">>, <<"East", "East">> }

\* the options of process_data the model varies (the others keep their defaults)
Config(input_file, output_file, filter_column, filter_values, keep_column, keep_values, primary_column, sort_order, sub_columns, show_stats) ==
    [input_file |-> input_file, output_file |-> output_file,
     filter_column |-> filter_column, filter_values |-> filter_values,
     keep_column |-> keep_column, keep_values |-> keep_values,
     primary_column |-> primary_column, sort_order |-> sort_order,
     sub_columns |-> sub_columns, show_stats |-> show_stats]

NoCfg ==
    Config([base |-> "", ext |-> ""], [base |-> "", ext |-> ""], None, {},
           None, {}, None, <<>>, <<>>, FALSE)

Init ==
    /\ sess = "none"
    /\ df = NoFrame
    /\ clusters = <<>>
    /\ sub_clusters = <<>>
    /\ ret = NoCall
    /\ observed \in BOOLEAN
    /\ nops = 0
    /\ pc = "api"
    /\ cfg = NoCfg
    /\ trace = <<>>
    /\ todo = <<>>
    /\ results = <<>>

Called == sess = "open" /\ nops < MaxOps /\ nops' = nops + 1

Load ==
    /\ sess = "none"
    /\ \E path \in Paths, file_format \in ExplicitFormats, t \in Tables,
          readable \in BOOLEAN :
          DataProcessing_init(path, file_format, t, readable)
    /\ UNCHANGED <<observed, nops, runVars>>

Filter ==
    /\ Called
    /\ \E c \in Cols, v \in ValueSets : filter_by_column(c, v)
    /\ UNCHANGED <<observed, runVars>>

Keep ==
    /\ Called
    /\ \E c \in Cols, v \in ValueSets : keep_only_values(c, v)
    /\ UNCHANGED <<observed, runVars>>

Sort ==
    /\ Called
    /\ \E c \in Cols, o \in Orders : sort_by_custom_order(c, o)
    /\ UNCHANGED <<observed, runVars>>

CreateClusters ==
    /\ Called
    /\ \E c \in Cols : create_clusters(c)
    /\ UNCHANGED <<observed, runVars>>

CreateSubClusters ==
    /\ Called
    /\ \E p \in Cols, s \in Cols : create_sub_clusters(p, s)
    /\ UNCHANGED <<observed, runVars>>

GetSubCluster ==
    /\ Called
    /\ \E p \in Cols, s \in Cols, pv \in LookupVals, sv \in LookupVals :
          get_sub_cluster(p, s, pv, sv)
    /\ UNCHANGED <<observed, runVars>>

Next ==
    \/ Load
    \/ Filter
    \/ Keep
    \/ Sort
    \/ CreateClusters
    \/ CreateSubClusters
    \/ GetSubCluster

Spec == Init /\ [][Next]_vars

\* construction alone
LoadNext ==
    \/ Load

LoadSpec == Init /\ [][LoadNext]_vars

\* the table and its indices, without lookups
IndexNext ==
    \/ Load
    \/ Filter
    \/ Keep
    \/ Sort
    \/ CreateClusters
    \/ CreateSubClusters

IndexSpec == Init /\ [][IndexNext]_vars

----------------------------------------------------------------------------
(* main.py: process_data step by step, inside process_all_datasets' loop *)

\* Python truthiness of an optional string, and of a list
Truthy(x) == x # None /\ x # ""

\* the filter step's test without its filter_values half
FilterRequested_ColumnOnly(c) == Truthy(c.filter_column)

FilterRequested(c) == Truthy(c.filter_column) /\ c.filter_values # {}
KeepRequested(c) == Truthy(c.keep_column) /\ c.keep_values # {}
SortRequested(c) == Truthy(c.primary_column) /\ c.sort_order # <<>>
ClustersRequested(c) == Truthy(c.primary_column)
SubRequested(c) == Truthy(c.primary_column) /\ c.sub_columns # <<>>
StatsRequested(c) == c.show_stats /\ Truthy(c.primary_column)

InputFiles == { [base |-> "data", ext |-> "csv"], [base |-> "gone", ext |-> "csv"] }
OutputFiles == { [base |-> "out", ext |-> "csv"], [base |-> "out", ext |-> "txt"] }
FilterOptions == { <<None, {}>>, <<"tag", {}>>, <<"tag", {"east"}>> }
KeepOptions == { <<None, {}>>, <<"tag_tag", {"east"}>>, <<NoCol, {"east"}>> }
PrimaryOptions == { None, "tag" }
SortOrders == { <<>>, <<"West">> }
SubColumnOptions == { <<>>, <<"tag_tag", "tag">> }

Configs ==
    { Config(i, o, f[1], f[2], k[1], k[2], p, so, sc, st) :
        i \in InputFiles, o \in OutputFiles, f \in FilterOptions,
        k \in KeepOptions, p \in PrimaryOptions, so \in SortOrders,
        sc \in SubColumnOptions, st \in BOOLEAN }

IsSub(step) == step = "sub"
SubDone(tr) == Len(SelectSeq(tr, IsSub))

\* where a step goes on: to the except clause if the call raised
Goto(next) == pc' = IF ret'.out = "raise" THEN "raised" ELSE next

Skip(next) == pc' = next /\ UNCHANGED <<dpVars, ret, trace>>

PipeInit ==
    /\ sess = "none"
    /\ df = NoFrame
    /\ clusters = <<>>
    /\ sub_clusters = <<>>
    /\ ret = NoCall
    /\ observed \in BOOLEAN
    /\ nops = 0
    /\ pc = "idle"
    /\ cfg = NoCfg
    /\ trace = <<>>
    /\ todo = [i \in 1..MaxDatasets |-> i]
    /\ results = <<>>

\* the loop takes the next (dataset_name, config) and calls process_data
StartRun ==
    /\ pc = "idle"
    /\ todo # <<>>
    /\ cfg' \in Configs
    /\ pc' = "load"
    /\ trace' = <<>>
    /\ sess' = "none"
    /\ df' = NoFrame
    /\ clusters' = <<>>
    /\ sub_clusters' = <<>>
    /\ ret' = NoCall
    /\ UNCHANGED <<observed, nops, todo, results>>

StepLoad ==
    /\ pc = "load"
    /\ \E t \in Tables, readable \in BOOLEAN :
          DataProcessing_init(cfg.input_file, NoFormat, t, readable)
    /\ trace' = Append(trace, "load")
    /\ Goto("filter")
    /\ UNCHANGED <<observed, nops, cfg, todo, results>>

StepFilter ==
    /\ pc = "filter"
    /\ IF FilterRequested(cfg)
       THEN /\ filter_by_column(cfg.filter_column, cfg.filter_values)
            /\ trace' = Append(trace, "filter")
            /\ Goto("keep")
       ELSE Skip("keep")
    /\ UNCHANGED <<observed, nops, cfg, todo, results>>

StepKeep ==
    /\ pc = "keep"
    /\ IF KeepRequested(cfg)
       THEN /\ keep_only_values(cfg.keep_column, cfg.keep_values)
            /\ trace' = Append(trace, "keep")
            /\ Goto("sort")
       ELSE Skip("sort")
    /\ UNCHANGED <<observed, nops, cfg, todo, results>>

StepSort ==
    /\ pc = "sort"
    /\ IF SortRequested(cfg)
       THEN /\ sort_by_custom_order(cfg.primary_column, cfg.sort_order)
            /\ trace' = Append(trace, "sort")
            /\ Goto("clusters")
       ELSE Skip("clusters")
    /\ UNCHANGED <<observed, nops, cfg, todo, results>>

StepClusters ==
    /\ pc = "clusters"
    /\ IF ClustersRequested(cfg)
       THEN /\ create_clusters(cfg.primary_column)
            /\ trace' = Append(trace, "clusters")
            /\ Goto(IF SubRequested(cfg) THEN "sub" ELSE "stats")
       ELSE Skip("stats")
    /\ UNCHANGED <<observed, nops, cfg, todo, results>>

StepSub ==
    /\ pc = "sub"
    /\ LET i == SubDone(trace) + 1
       IN  /\ create_sub_clusters(cfg.primary_column, cfg.sub_columns[i])
           /\ trace' = Append(trace, "sub")
           /\ Goto(IF i = Len(cfg.sub_columns) THEN "stats" ELSE "sub")
    /\ UNCHANGED <<observed, nops, cfg, todo, results>>

\* the statistics block up to its get_sub_cluster call: the error raised,
\* "lookup" if the call is reached, "ok" if the block ends without it
StatsOutcome(cl, sc, c) ==
    LET key == Key(c.primary_column, c.sub_columns[1])
    IN  IF c.sub_columns = <<>> THEN "ok"
        ELSE IF key \notin DOMAIN sc THEN "ok"
        ELSE IF cl[c.primary_column] = <<>> THEN "IndexError"
        ELSE IF cl[c.primary_column][1].k \notin Keys(sc[key]) THEN "KeyError"
        ELSE IF Get(sc[key], cl[c.primary_column][1].k) = <<>> THEN "IndexError"
        ELSE "lookup"

StepStats ==
    /\ pc = "stats"
    /\ IF StatsRequested(cfg)
       THEN LET o == StatsOutcome(clusters, sub_clusters, cfg)
                first_primary == clusters[cfg.primary_column][1].k
                first_sub == Get(sub_clusters[Key(cfg.primary_column,
                                 cfg.sub_columns[1])], first_primary)[1].k
            IN  /\ IF o = "lookup"
                   THEN get_sub_cluster(cfg.primary_column, cfg.sub_columns[1],
                                        first_primary, first_sub)
                   ELSE /\ ret' = IF o = "ok"
                                  THEN Call("stats", "", "", {}, <<>>, "", "",
                                            "ok", "", <<>>)
                                  ELSE Raise("stats", "", "", {}, <<>>, "", "", o)
                        /\ UNCHANGED dpVars
                /\ trace' = Append(trace, "stats")
                /\ Goto("save")
       ELSE Skip("save")
    /\ UNCHANGED <<observed, nops, cfg, todo, results>>

\* save_ordered_data(output_path, format=None)
save_ordered_data(output_file) ==
    IF detect_format(output_file) = None THEN "ValueError" ELSE "ok"

StepSave ==
    /\ pc = "save"
    /\ LET o == save_ordered_data(cfg.output_file)
       IN  ret' = IF o = "ok"
                  THEN Call("save_ordered_data", "", "", {}, <<>>, "", "", "ok",
                            "", <<>>)
                  ELSE Raise("save_ordered_data", cfg.output_file.base,
                             cfg.output_file.ext, {}, <<>>, "", "", o)
    /\ trace' = Append(trace, "save")
    /\ Goto("done")
    /\ UNCHANGED <<dpVars, observed, nops, cfg, todo, results>>

\* results[dataset_name] = dp, or None in the except clause
ResultOf(p) == IF p = "done" THEN "dp" ELSE None

\* a loop that an exception ends
Remaining_AbortOnError(td, p) == IF p = "raised" THEN <<>> ELSE Tail(td)

\* the datasets the loop still visits once a run has ended
Remaining(td, p) == Tail(td)

Record ==
    /\ pc \in {"done", "raised"}
    /\ results' = Put(results, Head(todo), ResultOf(pc))
    /\ todo' = Remaining(todo, pc)
    /\ pc' = "idle"
    /\ UNCHANGED <<dpVars, ret, observed, nops, cfg, trace>>

PipeNext ==
    \/ StartRun
    \/ StepLoad
    \/ StepFilter
    \/ StepKeep
    \/ StepSort
    \/ StepClusters
    \/ StepSub
    \/ StepStats
    \/ StepSave
    \/ Record

PipeSpec == PipeInit /\ [][PipeNext]_vars

----------------------------------------------------------------------------
(* Properties *)

Last(s) == s[Len(s)]
PathOf(r) == [base |-> r.col, ext |-> r.col2]
Resolvable(path) == Lower(path.ext) \in FormatMapKeys
LoadFailed == ret.op = "load" /\ ret.out = "raise"
NothingCreated == sess = "none" /\ df = NoFrame /\ clusters = <<>> /\ sub_clusters = <<>>

\* the position of the row with index label id
PosOf(rows, id) == CHOOSE i \in 1..Len(rows) : rows[i].id = id
RowIds(rows) == { rows[i].id : i \in 1..Len(rows) }

\* a call was made on the open session in this step
Calls(op) == nops' = nops + 1 /\ ret'.op = op

\* C1: process_all_datasets returns one entry per configured dataset, in
\* order; the entry is None exactly when the dataset's run raised and the
\* session otherwise; and no name is ever lost from the loop, so a failure
\* does not keep the later datasets from being run and recorded.
C1_BatchResults ==
    /\ Len(results) + Len(todo) = MaxDatasets
    /\ \A i \in 1..Len(results) : results[i].k = i
    /\ \A i \in 1..Len(todo) : todo[i] = Len(results) + i
    /\ (pc = "idle" /\ results # <<>>) =>
          /\ Last(results).g = None <=> ret.out = "raise"
          /\ Last(results).g = "dp" <=>
                (ret.out # "raise" /\ trace # <<>> /\ Last(trace) = "save")
    /\ pc \in {"done", "raised"} => todo # <<>>

\* C1 witness: the batch has ended with a failed dataset followed by a
\* successful one, both recorded.
C1_Witness ==
    /\ pc = "idle"
    /\ todo = <<>>
    /\ Len(results) = MaxDatasets
    /\ results[MaxDatasets - 1].g = None
    /\ results[MaxDatasets].g = "dp"

\* C2: after create_clusters(C) every current row is in exactly one
\* partition and every partition row is a current row.
C2_Partition ==
    (ret.op = "create_clusters" /\ ret.out = "ok") =>
        LET d == clusters[ret.col]
        IN  /\ \A id \in Ids(df) :
                  Cardinality({ i \in 1..Len(d) : id \in Ids(d[i].g) }) = 1
            /\ \A i \in 1..Len(d) : Ids(d[i].g) \subseteq Ids(df)

StepRank(step) ==
    CASE step = "load" -> 1
      [] step = "filter" -> 2
      [] step = "keep" -> 3
      [] step = "sort" -> 4
      [] step = "clusters" -> 5
      [] step = "sub" -> 6
      [] step = "stats" -> 7
      [] step = "save" -> 8

Ran(step) == step \in Range(trace)

\* the rows of df with value v in column c, in table order, as ids
IdsWith(f, c, v) ==
    LET Has(r) == r[c] = v
        sel == SelectSeq(f.rows, Has)
    IN  [i \in 1..Len(sel) |-> sel[i].id]

IdSeq(f) == [i \in 1..Len(f.rows) |-> f.rows[i].id]

\* C3: the executed steps of a run follow the fixed order load, filter,
\* keep-only, sort, clusters, sub-clusters, statistics, save; an optional step
\* has executed only if its options were given, and a run that reached the end
\* executed every requested step and skipped the others; no filter, keep-only
\* or sort executes after an index was built; and the indices of the returned
\* session group exactly the rows of the saved table.
C3_StepOrder ==
    /\ \A i, j \in 1..Len(trace) : i < j =>
          /\ StepRank(trace[i]) <= StepRank(trace[j])
          /\ StepRank(trace[i]) = StepRank(trace[j]) => trace[i] = "sub"
          /\ trace[i] \in {"clusters", "sub"} =>
                trace[j] \notin {"filter", "keep", "sort"}
    /\ Ran("filter") => (cfg.filter_column # None /\ cfg.filter_values # {})
    /\ Ran("keep") => (cfg.keep_column # None /\ cfg.keep_values # {})
    /\ Ran("sort") => (cfg.primary_column # None /\ cfg.sort_order # <<>>)
    /\ Ran("clusters") => cfg.primary_column # None
    /\ Ran("sub") => (cfg.primary_column # None /\ cfg.sub_columns # <<>>)
    /\ Ran("stats") => (cfg.primary_column # None /\ cfg.show_stats)
    /\ SubDone(trace) <= Len(cfg.sub_columns)
    /\ pc = "done" =>
          /\ Ran("load") /\ Ran("save")
          /\ (cfg.filter_column # None /\ cfg.filter_values # {}) => Ran("filter")
          /\ (cfg.keep_column # None /\ cfg.keep_values # {}) => Ran("keep")
          /\ (cfg.primary_column # None /\ cfg.sort_order # <<>>) => Ran("sort")
          /\ cfg.primary_column # None =>
                /\ Ran("clusters")
                /\ SubDone(trace) = Len(cfg.sub_columns)
                /\ cfg.show_stats => Ran("stats")
                /\ LET p == cfg.primary_column
                       d == clusters[p]
                   IN  /\ \A i \in 1..Len(d) :
                             IdSeq(d[i].g) = IdsWith(df, p, d[i].k)
                       /\ \A s \in Range(cfg.sub_columns) :
                             LET sd == sub_clusters[Key(p, s)]
                             IN  /\ Len(sd) = Len(d)
                                 /\ \A i \in 1..Len(sd) : \A j \in 1..Len(sd[i].g) :
                                       \A r \in Range(sd[i].g[j].g.rows) :
                                          /\ r \in Range(df.rows)
                                          /\ r[p] = sd[i].k
                                          /\ r[s] = sd[i].g[j].k

\* C3 witness: a run in which every step executed, with two sub-columns.
C3_Witness ==
    /\ pc = "done"
    /\ trace = <<"load", "filter", "keep", "sort", "clusters", "sub", "sub",
                 "stats", "save">>
    /\ df.rows # <<>>

\* C4: a successful sort_by_custom_order keeps the rows, puts the rows whose
\* title-cased value is listed first, in the listed order, the others after
\* them, and keeps the relative order of rows that shared a value.
C4_StableSort ==
    [][ (Calls("sort_by_custom_order") /\ ret'.out = "ok") =>
          LET c == ret'.col
              order == ret'.order
              old(i) == df.rows[PosOf(df.rows, df'.rows[i].id)]
              listed(i) == Title(old(i)[c]) \in Range(order)
          IN  /\ Len(df'.rows) = Len(df.rows)
              /\ RowIds(df'.rows) = RowIds(df.rows)
              /\ \A i, j \in 1..Len(df'.rows) : i < j =>
                    /\ listed(j) => listed(i)
                    /\ (listed(i) /\ listed(j)) =>
                          Code(Title(old(i)[c]), order) <= Code(Title(old(j)[c]), order)
                    /\ old(i)[c] = old(j)[c] =>
                          PosOf(df.rows, df'.rows[i].id) < PosOf(df.rows, df'.rows[j].id)
      ]_vars

\* C5: sort_by_custom_order applied again with the same arguments leaves the
\* row sequence and the column values as the first application left them.
C5_Idempotent ==
    [][ ( /\ ret.op = "sort_by_custom_order" /\ ret.out = "ok"
          /\ Calls("sort_by_custom_order") /\ ret'.out = "ok"
          /\ ret'.col = ret.col /\ ret'.order = ret.order )
        => df' = df
      ]_vars

\* C6: get_sub_cluster on existing columns never raises, leaves the table
\* alone, returns only rows whose primary and sub values are the requested
\* ones, and returns None when the index for its columns has no such path.
C6_GetSubCluster ==
    [][ (Calls("get_sub_cluster") /\ ret'.col \in Cols /\ ret'.col2 \in Cols) =>
          /\ ret'.out # "raise"
          /\ df' = df
          /\ ret'.out = "frame" =>
                \A r \in Range(ret'.rows) :
                    r[ret'.col] = ret'.pv /\ r[ret'.col2] = ret'.sv
      ]_vars

\* C7 as stated: a load of a missing path fails with FileNotFoundError
\* whatever the format argument, ValueError is raised only for a path that
\* exists, and a failed load creates nothing.
C7_MissingPathFirst ==
    LoadFailed =>
        /\ ~Exists(PathOf(ret)) => ret.err = "FileNotFoundError"
        /\ ret.err = "ValueError" => Exists(PathOf(ret))
        /\ NothingCreated

\* C7 amended: a load of a missing path fails with FileNotFoundError when
\* the format is given or resolvable from the extension; with the format
\* omitted and the extension unresolvable it fails with ValueError whether or
\* not the path exists; ValueError is raised in that case and for an existing
\* path with an unknown explicit format, and in no other; a failed load
\* creates nothing.
C7_LoadFailure ==
    LoadFailed =>
        LET path == PathOf(ret)
            omitted == ret.pv = NoFormat
        IN  /\ (~Exists(path) /\ (~omitted \/ Resolvable(path))) =>
                  ret.err = "FileNotFoundError"
            /\ ret.err = "ValueError" <=>
                  \/ omitted /\ ~Resolvable(path)
                  \/ ~omitted /\ Exists(path) /\ ret.pv \notin KnownFormats
            /\ NothingCreated

\* C7 witness: a load of a missing path with an unresolvable extension and
\* no format has failed with ValueError.
C7_Witness ==
    /\ LoadFailed
    /\ ~Exists(PathOf(ret))
    /\ ret.pv = NoFormat
    /\ ret.err = "ValueError"

\* C8: an index just built for (P2,S2) is not overwritten by
\* create_sub_clusters for another pair, and get_sub_cluster for another pair
\* is not answered from it.
C8_PairKeyed ==
    [][ ( /\ ret.op = "create_sub_clusters" /\ ret.out = "ok"
          /\ nops' = nops + 1
          /\ ret'.op \in {"create_sub_clusters", "get_sub_cluster"}
          /\ <<ret'.col, ret'.col2>> # <<ret.col, ret.col2>> )
        => LET built == Key(ret.col, ret.col2)
           IN  /\ sub_clusters'[built] = sub_clusters[built]
               /\ ret'.out = "frame" =>
                     \A r \in Range(ret'.rows) :
                         r[ret'.col] = ret'.pv /\ r[ret'.col2] = ret'.sv
      ]_vars

\* the rows held anywhere in the sub-cluster index d
SubRowsAt(d, i) == UNION { Range(d[i].g[j].g.rows) : j \in 1..Len(d[i].g) }

SubRows(d) == UNION { SubRowsAt(d, i) : i \in 1..Len(d) }

\* C9: filter, keep-only and sort leave the cached indices as they are;
\* create_clusters(C) replaces the index for C by the groups of the current
\* rows and no other; create_sub_clusters(P,S) does not raise, builds the
\* index for P from the current rows only if none is cached and otherwise
\* keeps it, and groups the rows of each cached primary partition that have a
\* value in S.
C9_StaleIndex ==
    [][ (nops' = nops + 1) =>
          /\ ret'.op \in {"filter_by_column", "keep_only_values",
                          "sort_by_custom_order"} =>
                clusters' = clusters /\ sub_clusters' = sub_clusters
          /\ ret'.op = "create_clusters" =>
                /\ ret'.out = "ok"
                /\ df' = df /\ sub_clusters' = sub_clusters
                /\ DOMAIN clusters' = DOMAIN clusters \cup {ret'.col}
                /\ \A c \in DOMAIN clusters \ {ret'.col} : clusters'[c] = clusters[c]
                /\ LET d == clusters'[ret'.col]
                   IN  /\ \A i \in 1..Len(d) :
                             IdSeq(d[i].g) = IdsWith(df, ret'.col, d[i].k)
                       /\ \A k \in 1..Len(df.rows) :
                             df.rows[k][ret'.col] # NaN =>
                                df.rows[k][ret'.col] \in Keys(d)
          /\ ret'.op = "create_sub_clusters" =>
                LET p == ret'.col
                    s == ret'.col2
                    sd == sub_clusters'[Key(p, s)]
                IN  /\ ret'.out = "ok"
                    /\ df' = df
                    /\ p \in DOMAIN clusters => clusters' = clusters
                    /\ p \notin DOMAIN clusters =>
                          \A i \in 1..Len(clusters'[p]) :
                             IdSeq(clusters'[p][i].g) = IdsWith(df, p, clusters'[p][i].k)
                    /\ Len(sd) = Len(clusters'[p])
                    /\ \A i \in 1..Len(sd) :
                          /\ sd[i].k = clusters'[p][i].k
                          /\ SubRowsAt(sd, i) =
                                { r \in Range(clusters'[p][i].g.rows) : r[s] # NaN }
                          /\ \A j \in 1..Len(sd[i].g) :
                                \A r \in Range(sd[i].g[j].g.rows) : r[s] = sd[i].g[j].k
      ]_vars

\* C9 witness: create_sub_clusters has just built, from a cached primary
\* index, a sub-index holding a row that is no longer in the table.
C9_Witness ==
    /\ ret.op = "create_sub_clusters"
    /\ ret.out = "ok"
    /\ \E r \in SubRows(sub_clusters[Key(ret.col, ret.col2)]) : r.id \notin Ids(df)

\* C10: a run with a primary column, a sub-column and show_stats does not
\* raise in the statistics step.
C10_StatsCompletes ==
    (pc = "raised" /\ Last(trace) = "stats") =>
        ~(cfg.primary_column # None /\ cfg.sub_columns # <<>> /\ cfg.show_stats)

====
